---------------------------- MODULE Spec2Model ----------------------------
(***************************************************************************)
(* Account-balance consistency of the expense tracker backend.             *)
(*                                                                         *)
(* The state is the committed content of the accounts, expenses,           *)
(* transfers and refresh_tokens tables, the row locks of the accounts      *)
(* table, and, for every                                                   *)
(* request in flight, its position in the handler, its ORM session (the    *)
(* Account objects it holds in memory) and the handler's local variables.  *)
(* One action is one database statement of a handler together with the     *)
(* in-memory code that follows it up to the next statement: the handlers   *)
(* are coroutines, and another request runs only while one awaits the      *)
(* database.                                                               *)
(*                                                                         *)
(* Money is Numeric(15, 2); an amount is modelled as its number of cents.  *)
(***************************************************************************)
EXTENDS Integers, Sequences, FiniteSets, TLC

VARIABLES
    accounts,    \* the committed accounts rows (user_id, is_primary), per account id
    balance,     \* accounts.balance as committed, per account row
    lockHolder,  \* per account row: the request whose transaction holds its row lock
    expenses,    \* the committed expenses rows, per expense id
    transfers,   \* the committed transfers rows, per transfer id
    refresh_tokens, \* the committed refresh_tokens rows: the token strings stored
    req,         \* per request: the call and its arguments
    pc,          \* per request: the statement it executes next
    loaded,      \* per request: Account.balance as its session loaded it (identity map)
    attr,        \* per request: Account.balance as it stands in memory now
    forUpdate,   \* per request: the account rows its transaction has selected FOR UPDATE
    local,       \* per request: the handler's local variables
    status       \* per request: the HTTP outcome

vars == <<accounts, balance, lockHolder, expenses, transfers, refresh_tokens,
          req, pc, loaded, attr, forUpdate, local, status>>

-----------------------------------------------------------------------------
(* Identifiers.  An account id is a UUID; two hex digits of it are kept,   *)
(* the other thirty being the same for every account.                      *)

AcctA == <<10, 3>>
AcctB == <<1, 15>>
AcctC == <<11, 0>>
AcctX == <<0, 7>>

UserX == "userX"
UserY == "userY"
Users == {UserX, UserY}

\* the rows of the accounts table, and every id a request may name
Accounts == {AcctA, AcctB, AcctC}
AccountIds == Accounts \cup {AcctX}

\* accounts.user_id
Owner == (AcctA :> UserX) @@ (AcctB :> UserX) @@ (AcctC :> UserY)

\* the accounts table before any request: AcctA is its user's primary account
InitAccounts ==
    [a \in Accounts |-> [user_id |-> Owner[a], is_primary |-> (a = AcctA)]]

\* the accounts a user has before any request
AccountsOf(user) == {a \in Accounts : Owner[a] = user}

\* accounts.balance before any request
InitBalance == (AcctA :> 1000) @@ (AcctB :> 500) @@ (AcctC :> 700)

NoReq == 0

\* str(uuid): the lowercase hex digits of the id, as character codes
Chr(d) == IF d < 10 THEN 48 + d ELSE 87 + d
Str(id) == [i \in 1..Len(id) |-> Chr(id[i])]

\* Python's s < t on strings: lexicographic by character code
StrLess(s, t) ==
    \/ \E i \in 1..Len(s) :
          /\ i <= Len(t)
          /\ s[i] < t[i]
          /\ \A j \in 1..(i - 1) : s[j] = t[j]
    \/ /\ Len(s) < Len(t)
       /\ \A j \in 1..Len(s) : s[j] = t[j]

-----------------------------------------------------------------------------
(* Helpers. *)

RECURSIVE Sum(_, _)
Sum(f, S) ==
    IF S = {} THEN 0
    ELSE LET x == CHOOSE y \in S : TRUE IN f[x] + Sum(f, S \ {x})

RECURSIVE SetToSeq(_)
SetToSeq(S) ==
    IF S = {} THEN <<>>
    ELSE LET x == CHOOSE y \in S : TRUE IN <<x>> \o SetToSeq(S \ {x})

Reqs == DOMAIN req

\* the locals of a handler before it sets them
NoLocal == [old_amount |-> 0, old_account_id |-> AcctX, old_to_account_id |-> AcctX,
            new_amount |-> 0, new_account_id |-> AcctX, new_to_account_id |-> AcctX]

\* a call: the handler, the acting user and the arguments; fields are the
\* keys the request body sets (model_dump(exclude_unset=True))
Call(kind, user, id, acc, acc2, amt, fields) ==
    [kind |-> kind, user |-> user, id |-> id, acc |-> acc, acc2 |-> acc2,
     amt |-> amt, fields |-> fields]

\* a request before its first statement: an empty session
IdleRequests(rq) ==
    /\ req = rq
    /\ lockHolder = [a \in Accounts |-> NoReq]
    /\ pc = [r \in DOMAIN rq |-> "start"]
    /\ loaded = [r \in DOMAIN rq |-> <<>>]
    /\ attr = [r \in DOMAIN rq |-> <<>>]
    /\ forUpdate = [r \in DOMAIN rq |-> {}]
    /\ local = [r \in DOMAIN rq |-> NoLocal]
    /\ status = [r \in DOMAIN rq |-> "pending"]

\* the requests idle, the accounts table as it is before any request
IdleInit(rq) ==
    /\ IdleRequests(rq)
    /\ accounts = InitAccounts
    /\ balance = InitBalance
    /\ refresh_tokens = {}

\* the requests of a run: N of them drawn from the set menu (in a fixed order,
\* the requests being interchangeable)
Draw(menu, N) ==
    LET m == SetToSeq(menu)
    IN  { [r \in 1..N |-> m[idx[r]]] :
            idx \in { f \in [1..N -> 1..Len(m)] :
                        \A i \in 1..(N - 1) : f[i] <= f[i + 1] } }

-----------------------------------------------------------------------------
(* The database and the session. *)

\* WHERE Account.id == account_id, Account.user_id == user_id
MatchesNoOwnerCheck(account_id, user_id) ==
    account_id \in DOMAIN accounts

Matches(account_id, user_id) ==
    /\ account_id \in DOMAIN accounts
    /\ accounts[account_id].user_id = user_id

\* .with_for_update(): the statement waits while another transaction holds
\* the row lock, then holds it itself until its transaction ends
without_for_update(r, a) == UNCHANGED lockHolder

with_for_update(r, a) ==
    /\ lockHolder[a] \in {NoReq, r}
    /\ lockHolder' = [lockHolder EXCEPT ![a] = r]

\* an UPDATE of the row waits for the row lock as well
RowWritable(r, a) == lockHolder[a] \in {NoReq, r}

\* A row a SELECT returns becomes the session's Account object.  The session
\* keeps one object per primary key: a row of an account it already holds
\* does not overwrite the attributes loaded before (no populate_existing).
SessionLoad(r, a) ==
    IF a \in DOMAIN loaded[r]
    THEN [ld |-> loaded[r], at |-> attr[r]]
    ELSE [ld |-> loaded[r] @@ (a :> balance[a]),
          at |-> attr[r] @@ (a :> balance[a])]

\* the accounts whose balance the flush writes: attributes that differ from
\* the value loaded
Dirty(r) == {a \in DOMAIN attr[r] : attr[r][a] # loaded[r][a]}

HeldBy(r) == {a \in Accounts : lockHolder[a] = r}

Committed(r) == pc[r] = "done" /\ status[r] = "ok"

\* account.balance = Decimal(str(account.balance)) + delta
SubDelta(old, delta) == old - delta

AddDeltaClamped(old, delta) == IF old + delta < 0 THEN 0 ELSE old + delta

AddDelta(old, delta) == old + delta

-----------------------------------------------------------------------------
(* account_service.get_account_with_lock and update_balance. *)

\* get_account_with_lock raises 404
NotFound(r) ==
    /\ pc' = [pc EXCEPT ![r] = "failed"]
    /\ status' = [status EXCEPT ![r] = "404"]

\* get_account_with_lock on a row that matches: wait for the row lock, take
\* it, and return the session's Account object of the row
get_account_with_lock(r, account_id) ==
    /\ with_for_update(r, account_id)
    /\ loaded' = [loaded EXCEPT ![r] = SessionLoad(r, account_id).ld]
    /\ forUpdate' = [forUpdate EXCEPT ![r] = @ \cup {account_id}]

\* update_balance(db, account_id, user_id, delta), user_id being the
\* request's user; next is where the caller goes on
update_balance(r, account_id, delta, next) ==
    IF ~Matches(account_id, req[r].user)
    THEN /\ NotFound(r)
         /\ UNCHANGED <<lockHolder, loaded, attr, forUpdate>>
    ELSE /\ get_account_with_lock(r, account_id)
         /\ attr' = [attr EXCEPT ![r] =
                       [SessionLoad(r, account_id).at EXCEPT
                          ![account_id] = AddDelta(@, delta)]]
         /\ pc' = [pc EXCEPT ![r] = next]
         /\ UNCHANGED status

\* update_balance called in a transaction of its own, which then commits
call_update_balance(r) ==
    /\ pc[r] = "start"
    /\ req[r].kind = "update_balance"
    /\ update_balance(r, req[r].acc, req[r].amt, "commit")
    /\ UNCHANGED <<balance, expenses, transfers, req, accounts, refresh_tokens, local>>

-----------------------------------------------------------------------------
(* account_service.transfer_balance. *)

\* if str(from_account_id) < str(to_account_id): the account locked first
FirstLockedCallerOrder(from_account_id, to_account_id) == from_account_id

FirstLocked(from_account_id, to_account_id) ==
    IF StrLess(Str(from_account_id), Str(to_account_id))
    THEN from_account_id
    ELSE to_account_id

SecondLocked(from_account_id, to_account_id) ==
    IF FirstLocked(from_account_id, to_account_id) = from_account_id
    THEN to_account_id
    ELSE from_account_id

\* the first get_account_with_lock of transfer_balance
transfer_balance_first(r) ==
    /\ pc[r] = "start"
    /\ req[r].kind = "transfer_balance"
    /\ LET a == FirstLocked(req[r].acc, req[r].acc2)
       IN  IF ~Matches(a, req[r].user)
           THEN /\ NotFound(r)
                /\ UNCHANGED <<lockHolder, loaded, attr, forUpdate>>
           ELSE /\ get_account_with_lock(r, a)
                /\ attr' = [attr EXCEPT ![r] = SessionLoad(r, a).at]
                /\ pc' = [pc EXCEPT ![r] = "tb_second"]
                /\ UNCHANGED status
    /\ UNCHANGED <<balance, expenses, transfers, req, accounts, refresh_tokens, local>>

\* from_account.balance = .. - amount; to_account.balance = .. + amount, on
\* the session's objects at
MoveCreditOnly(at, from_account_id, to_account_id, amount) ==
    [at EXCEPT ![to_account_id] = @ + amount]

Move(at, from_account_id, to_account_id, amount) ==
    LET debited == [at EXCEPT ![from_account_id] = @ - amount]
    IN  [debited EXCEPT ![to_account_id] = @ + amount]

\* the second get_account_with_lock, then the debit and the credit
transfer_balance_second(r) ==
    /\ pc[r] = "tb_second"
    /\ LET a == SecondLocked(req[r].acc, req[r].acc2)
       IN  IF ~Matches(a, req[r].user)
           THEN /\ NotFound(r)
                /\ UNCHANGED <<lockHolder, loaded, attr, forUpdate>>
           ELSE /\ get_account_with_lock(r, a)
                /\ attr' = [attr EXCEPT ![r] =
                              Move(SessionLoad(r, a).at, req[r].acc, req[r].acc2, req[r].amt)]
                /\ pc' = [pc EXCEPT ![r] = "commit"]
                /\ UNCHANGED status
    /\ UNCHANGED <<balance, expenses, transfers, req, accounts, refresh_tokens, local>>

-----------------------------------------------------------------------------
(* endpoints/expenses.py.  The subcategory, product and store a request    *)
(* names are taken to exist.                                               *)

\* raise HTTPException(status_code=400)
BadRequest(r) ==
    /\ pc' = [pc EXCEPT ![r] = "failed"]
    /\ status' = [status EXCEPT ![r] = "400"]

\* a SELECT of the account row without FOR UPDATE: the session loads the row
Load(r, a) ==
    /\ loaded' = [loaded EXCEPT ![r] = SessionLoad(r, a).ld]
    /\ attr' = [attr EXCEPT ![r] = SessionLoad(r, a).at]

\* select(Expense).where(Expense.id == expense_id, Expense.user_id == current_user.id)
ExpenseFound(id, user) ==
    /\ id \in DOMAIN expenses
    /\ expenses[id].user_id = user

\* create_expense: "Verify account belongs to user"
create_expense_check(r) ==
    /\ pc[r] = "start"
    /\ req[r].kind = "create_expense"
    /\ IF ~Matches(req[r].acc, req[r].user)
       THEN /\ NotFound(r)
            /\ UNCHANGED <<loaded, attr>>
       ELSE /\ Load(r, req[r].acc)
            /\ pc' = [pc EXCEPT ![r] = "ce_update_balance"]
            /\ UNCHANGED status
    /\ UNCHANGED <<balance, lockHolder, expenses, transfers, req, accounts, refresh_tokens, forUpdate, local>>

\* create_expense: db.add(expense); update_balance(.., -amount)
create_expense_update_balance(r) ==
    /\ pc[r] = "ce_update_balance"
    /\ update_balance(r, req[r].acc, -req[r].amt, "commit")
    /\ UNCHANGED <<balance, expenses, transfers, req, accounts, refresh_tokens, local>>

\* update_expense: if "amount" in update_data or "account_id" in update_data
ChangesBalanceAlways(fields) == TRUE

ChangesBalance(fields) == fields \cap {"amount", "account_id"} # {}

\* update_expense: the expense is selected with selectinload(Expense.account);
\* old_amount, old_account_id, new_amount and new_account_id are computed
update_expense_load(r) ==
    /\ pc[r] = "start"
    /\ req[r].kind = "update_expense"
    /\ IF ~ExpenseFound(req[r].id, req[r].user)
       THEN /\ NotFound(r)
            /\ UNCHANGED <<loaded, attr, local>>
       ELSE LET e == expenses[req[r].id]
            IN  /\ Load(r, e.account_id)
                /\ local' = [local EXCEPT ![r] =
                     [@ EXCEPT !.old_amount = e.amount,
                               !.old_account_id = e.account_id,
                               !.new_amount = IF "amount" \in req[r].fields
                                              THEN req[r].amt ELSE e.amount,
                               !.new_account_id = IF "account_id" \in req[r].fields
                                                  THEN req[r].acc ELSE e.account_id]]
                /\ pc' = [pc EXCEPT ![r] =
                            IF ChangesBalance(req[r].fields)
                            THEN "ue_first" ELSE "commit"]
                /\ UNCHANGED status
    /\ UNCHANGED <<balance, lockHolder, expenses, transfers, req, accounts, refresh_tokens, forUpdate>>

\* update_expense: the one update_balance of the same-account case, or the
\* first of the two ("restore old")
update_expense_first(r) ==
    /\ pc[r] = "ue_first"
    /\ IF local[r].old_account_id = local[r].new_account_id
       THEN update_balance(r, local[r].old_account_id,
                           local[r].old_amount - local[r].new_amount, "commit")
       ELSE update_balance(r, local[r].old_account_id, local[r].old_amount, "ue_second")
    /\ UNCHANGED <<balance, expenses, transfers, req, accounts, refresh_tokens, local>>

\* update_expense: "deduct from new"
update_expense_second(r) ==
    /\ pc[r] = "ue_second"
    /\ update_balance(r, local[r].new_account_id, -local[r].new_amount, "commit")
    /\ UNCHANGED <<balance, expenses, transfers, req, accounts, refresh_tokens, local>>

\* delete_expense: the expense is selected with selectinload(Expense.account)
delete_expense_load(r) ==
    /\ pc[r] = "start"
    /\ req[r].kind = "delete_expense"
    /\ IF ~ExpenseFound(req[r].id, req[r].user)
       THEN /\ NotFound(r)
            /\ UNCHANGED <<loaded, attr, local>>
       ELSE LET e == expenses[req[r].id]
            IN  /\ Load(r, e.account_id)
                /\ local' = [local EXCEPT ![r] =
                     [@ EXCEPT !.old_amount = e.amount,
                               !.old_account_id = e.account_id]]
                /\ pc' = [pc EXCEPT ![r] = "de_balance"]
                /\ UNCHANGED status
    /\ UNCHANGED <<balance, lockHolder, expenses, transfers, req, accounts, refresh_tokens, forUpdate>>

\* delete_expense: update_balance(.., expense.account_id, .., expense.amount)
delete_expense_balance(r) ==
    /\ pc[r] = "de_balance"
    /\ update_balance(r, local[r].old_account_id, local[r].old_amount, "commit")
    /\ UNCHANGED <<balance, expenses, transfers, req, accounts, refresh_tokens, local>>

-----------------------------------------------------------------------------
(* endpoints/transfers.py.  The session's flush is modelled where the       *)
(* handler commits.                                                        *)

\* select(Account.id).where(Account.user_id == current_user.id)
UserAccountIds(user) == {a \in DOMAIN accounts : accounts[a].user_id = user}

\* select(Transfer).where(Transfer.id == transfer_id, or_(from in ids, to in ids))
TransferFound(id, user) ==
    /\ id \in DOMAIN transfers
    /\ \/ transfers[id].from_account_id \in UserAccountIds(user)
       \/ transfers[id].to_account_id \in UserAccountIds(user)

\* create_transfer: the SELECT of from_account, not locked
create_transfer_from(r) ==
    /\ pc[r] = "start"
    /\ req[r].kind = "create_transfer"
    /\ IF Matches(req[r].acc, req[r].user)
       THEN Load(r, req[r].acc)
       ELSE UNCHANGED <<loaded, attr>>
    /\ pc' = [pc EXCEPT ![r] = "ct_to"]
    /\ UNCHANGED <<balance, lockHolder, expenses, transfers, req, accounts, refresh_tokens, forUpdate, local, status>>

\* create_transfer: the SELECT of to_account, not locked, the two checks,
\* then from_account.balance -= amount; to_account.balance += amount
create_transfer_to(r) ==
    /\ pc[r] = "ct_to"
    /\ LET s == IF Matches(req[r].acc2, req[r].user)
                THEN SessionLoad(r, req[r].acc2)
                ELSE [ld |-> loaded[r], at |-> attr[r]]
       IN  /\ loaded' = [loaded EXCEPT ![r] = s.ld]
           /\ IF ~Matches(req[r].acc, req[r].user) \/ ~Matches(req[r].acc2, req[r].user)
              THEN /\ NotFound(r)
                   /\ attr' = [attr EXCEPT ![r] = s.at]
              ELSE IF req[r].acc = req[r].acc2
              THEN /\ BadRequest(r)
                   /\ attr' = [attr EXCEPT ![r] = s.at]
              ELSE /\ attr' = [attr EXCEPT ![r] =
                                 Move(s.at, req[r].acc, req[r].acc2, req[r].amt)]
                   /\ pc' = [pc EXCEPT ![r] = "commit"]
                   /\ UNCHANGED status
    /\ UNCHANGED <<balance, lockHolder, expenses, transfers, req, accounts, refresh_tokens, forUpdate, local>>

\* delete_transfer: the user's account ids and the transfer are selected
delete_transfer_load(r) ==
    /\ pc[r] = "start"
    /\ req[r].kind = "delete_transfer"
    /\ IF ~TransferFound(req[r].id, req[r].user)
       THEN /\ NotFound(r)
            /\ UNCHANGED local
       ELSE LET t == transfers[req[r].id]
            IN  /\ local' = [local EXCEPT ![r] =
                     [@ EXCEPT !.old_amount = t.amount,
                               !.old_account_id = t.from_account_id,
                               !.old_to_account_id = t.to_account_id]]
                /\ pc' = [pc EXCEPT ![r] = "dt_from"]
                /\ UNCHANGED status
    /\ UNCHANGED <<balance, lockHolder, expenses, transfers, req, accounts, refresh_tokens, loaded, attr, forUpdate>>

\* delete_transfer: select(Account).where(Account.id == transfer.from_account_id)
delete_transfer_from(r) ==
    /\ pc[r] = "dt_from"
    /\ Load(r, local[r].old_account_id)
    /\ pc' = [pc EXCEPT ![r] = "dt_to"]
    /\ UNCHANGED <<balance, lockHolder, expenses, transfers, req, accounts, refresh_tokens, forUpdate, local, status>>

\* delete_transfer: the SELECT of to_account, then
\* from_account.balance += amount; to_account.balance -= amount
delete_transfer_to(r) ==
    /\ pc[r] = "dt_to"
    /\ loaded' = [loaded EXCEPT ![r] = SessionLoad(r, local[r].old_to_account_id).ld]
    /\ attr' = [attr EXCEPT ![r] =
                  Move(SessionLoad(r, local[r].old_to_account_id).at,
                       local[r].old_account_id, local[r].old_to_account_id,
                       -local[r].old_amount)]
    /\ pc' = [pc EXCEPT ![r] = "commit"]
    /\ UNCHANGED <<balance, lockHolder, expenses, transfers, req, accounts, refresh_tokens, forUpdate, local, status>>

\* update_transfer: the user's account ids and the transfer are selected
update_transfer_load(r) ==
    /\ pc[r] = "start"
    /\ req[r].kind = "update_transfer"
    /\ IF ~TransferFound(req[r].id, req[r].user)
       THEN /\ NotFound(r)
            /\ UNCHANGED local
       ELSE LET t == transfers[req[r].id]
            IN  /\ local' = [local EXCEPT ![r] =
                     [old_amount |-> t.amount,
                      old_account_id |-> t.from_account_id,
                      old_to_account_id |-> t.to_account_id,
                      new_amount |-> IF "amount" \in req[r].fields
                                     THEN req[r].amt ELSE t.amount,
                      new_account_id |-> IF "from_account_id" \in req[r].fields
                                         THEN req[r].acc ELSE t.from_account_id,
                      new_to_account_id |-> IF "to_account_id" \in req[r].fields
                                            THEN req[r].acc2 ELSE t.to_account_id]]
                /\ pc' = [pc EXCEPT ![r] = "ut_old_from"]
                /\ UNCHANGED status
    /\ UNCHANGED <<balance, lockHolder, expenses, transfers, req, accounts, refresh_tokens, loaded, attr, forUpdate>>

\* update_transfer: the SELECT of old_from_account
update_transfer_old_from(r) ==
    /\ pc[r] = "ut_old_from"
    /\ Load(r, local[r].old_account_id)
    /\ pc' = [pc EXCEPT ![r] = "ut_old_to"]
    /\ UNCHANGED <<balance, lockHolder, expenses, transfers, req, accounts, refresh_tokens, forUpdate, local, status>>

\* update_transfer: the SELECT of old_to_account, "Restore old balances",
\* then the checks of the new accounts
update_transfer_old_to(r) ==
    /\ pc[r] = "ut_old_to"
    /\ LET l == local[r]
           s == SessionLoad(r, l.old_to_account_id)
       IN  /\ loaded' = [loaded EXCEPT ![r] = s.ld]
           /\ attr' = [attr EXCEPT ![r] =
                         Move(s.at, l.old_account_id, l.old_to_account_id, -l.old_amount)]
           /\ IF /\ \/ l.new_account_id # l.old_account_id
                    \/ l.new_to_account_id # l.old_to_account_id
                 /\ \/ l.new_account_id \notin UserAccountIds(req[r].user)
                    \/ l.new_to_account_id \notin UserAccountIds(req[r].user)
              THEN NotFound(r)
              ELSE IF l.new_account_id = l.new_to_account_id
              THEN BadRequest(r)
              ELSE /\ pc' = [pc EXCEPT ![r] = "ut_new_from"]
                   /\ UNCHANGED status
    /\ UNCHANGED <<balance, lockHolder, expenses, transfers, req, accounts, refresh_tokens, forUpdate, local>>

\* update_transfer: the SELECT of new_from_account
update_transfer_new_from(r) ==
    /\ pc[r] = "ut_new_from"
    /\ Load(r, local[r].new_account_id)
    /\ pc' = [pc EXCEPT ![r] = "ut_new_to"]
    /\ UNCHANGED <<balance, lockHolder, expenses, transfers, req, accounts, refresh_tokens, forUpdate, local, status>>

\* update_transfer: the SELECT of new_to_account, then
\* new_from_account.balance -= new_amount; new_to_account.balance += new_amount
update_transfer_new_to(r) ==
    /\ pc[r] = "ut_new_to"
    /\ loaded' = [loaded EXCEPT ![r] = SessionLoad(r, local[r].new_to_account_id).ld]
    /\ attr' = [attr EXCEPT ![r] =
                  Move(SessionLoad(r, local[r].new_to_account_id).at,
                       local[r].new_account_id, local[r].new_to_account_id,
                       local[r].new_amount)]
    /\ pc' = [pc EXCEPT ![r] = "commit"]
    /\ UNCHANGED <<balance, lockHolder, expenses, transfers, req, accounts, refresh_tokens, forUpdate, local, status>>

-----------------------------------------------------------------------------
(* The end of a request. *)

\* the id of the row a request inserts (uuid4: unused so far)
NewId(r) == 10 + r

\* update_expense: the value update_data holds for a field the body sets
update_data(r, field) ==
    CASE field = "amount" -> req[r].amt
      [] field = "account_id" -> req[r].acc
      [] field = "memo" -> req[r].memo

\* the expenses table after the flush of request r; update_expense sets
\* every field of update_data on the row
ExpensesAfter(r) ==
    CASE req[r].kind = "create_expense" ->
            expenses @@ (NewId(r) :> [user_id |-> req[r].user,
                                      account_id |-> req[r].acc,
                                      amount |-> req[r].amt])
      [] req[r].kind = "update_expense" ->
            [expenses EXCEPT ![req[r].id] =
               [field \in DOMAIN @ |->
                  IF field \in req[r].fields THEN update_data(r, field)
                  ELSE @[field]]]
      [] req[r].kind = "delete_expense" ->
            [i \in DOMAIN expenses \ {req[r].id} |-> expenses[i]]
      [] OTHER -> expenses

\* the transfers table after the flush of request r; the UPDATE of
\* update_transfer sets the columns whose new value differs from the value
\* the transfer was loaded with
TransfersAfter(r) ==
    CASE req[r].kind = "create_transfer" ->
            transfers @@ (NewId(r) :> [from_account_id |-> req[r].acc,
                                       to_account_id |-> req[r].acc2,
                                       amount |-> req[r].amt])
      [] req[r].kind = "update_transfer" ->
            [transfers EXCEPT ![req[r].id] =
               [@ EXCEPT !.amount =
                            IF local[r].new_amount # local[r].old_amount
                            THEN local[r].new_amount ELSE @,
                         !.from_account_id =
                            IF local[r].new_account_id # local[r].old_account_id
                            THEN local[r].new_account_id ELSE @,
                         !.to_account_id =
                            IF local[r].new_to_account_id # local[r].old_to_account_id
                            THEN local[r].new_to_account_id ELSE @]]
      [] req[r].kind = "delete_transfer" ->
            [i \in DOMAIN transfers \ {req[r].id} |-> transfers[i]]
      [] OTHER -> transfers

\* db.commit(): the flush writes the changed balances (its UPDATEs wait for
\* the row locks) and the handler's expense or transfer row, COMMIT makes
\* them the committed ones and releases the row locks of the transaction
CommitKeepsLocks(r) ==
    /\ pc[r] = "commit"
    /\ \A a \in Dirty(r) : RowWritable(r, a)
    /\ balance' = [a \in Accounts |->
                     IF a \in Dirty(r) THEN attr[r][a] ELSE balance[a]]
    /\ expenses' = ExpensesAfter(r)
    /\ transfers' = TransfersAfter(r)
    /\ pc' = [pc EXCEPT ![r] = "done"]
    /\ status' = [status EXCEPT ![r] = "ok"]
    /\ UNCHANGED <<lockHolder, req, accounts, refresh_tokens, loaded, attr, forUpdate, local>>

Commit(r) ==
    /\ pc[r] = "commit"
    /\ \A a \in Dirty(r) : RowWritable(r, a)
    /\ balance' = [a \in Accounts |->
                     IF a \in Dirty(r) THEN attr[r][a] ELSE balance[a]]
    /\ expenses' = ExpensesAfter(r)
    /\ transfers' = TransfersAfter(r)
    /\ lockHolder' = [a \in Accounts |->
                        IF lockHolder[a] = r THEN NoReq ELSE lockHolder[a]]
    /\ pc' = [pc EXCEPT ![r] = "done"]
    /\ status' = [status EXCEPT ![r] = "ok"]
    /\ UNCHANGED <<req, accounts, refresh_tokens, loaded, attr, forUpdate, local>>

\* the request ends with an exception: its session is closed, which rolls
\* the transaction back and releases its row locks
RollbackCommits(r) ==
    /\ pc[r] = "failed"
    /\ \A a \in Dirty(r) : RowWritable(r, a)
    /\ balance' = [a \in Accounts |->
                     IF a \in Dirty(r) THEN attr[r][a] ELSE balance[a]]
    /\ lockHolder' = [a \in Accounts |->
                        IF lockHolder[a] = r THEN NoReq ELSE lockHolder[a]]
    /\ pc' = [pc EXCEPT ![r] = "done"]
    /\ UNCHANGED <<expenses, transfers, req, accounts, refresh_tokens, loaded, attr, forUpdate, local, status>>

Rollback(r) ==
    /\ pc[r] = "failed"
    /\ lockHolder' = [a \in Accounts |->
                        IF lockHolder[a] = r THEN NoReq ELSE lockHolder[a]]
    /\ loaded' = [loaded EXCEPT ![r] = <<>>]
    /\ attr' = [attr EXCEPT ![r] = <<>>]
    /\ pc' = [pc EXCEPT ![r] = "done"]
    /\ UNCHANGED <<balance, expenses, transfers, req, accounts, refresh_tokens, forUpdate, local, status>>

-----------------------------------------------------------------------------
(* Lock waits. *)

\* the account rows whose lock the next statement of request r asks for
Wants(r) ==
    LET owned(a) == {b \in {a} : Matches(b, req[r].user)}
    IN  CASE pc[r] = "start" /\ req[r].kind = "update_balance" -> owned(req[r].acc)
          [] pc[r] = "start" /\ req[r].kind = "transfer_balance" ->
                owned(FirstLocked(req[r].acc, req[r].acc2))
          [] pc[r] = "tb_second" -> owned(SecondLocked(req[r].acc, req[r].acc2))
          [] pc[r] = "ce_update_balance" -> owned(req[r].acc)
          [] pc[r] \in {"ue_first", "de_balance"} -> owned(local[r].old_account_id)
          [] pc[r] = "ue_second" -> owned(local[r].new_account_id)
          [] pc[r] = "commit" -> Dirty(r)
          [] OTHER -> {}

\* r waits: a lock it asks for is held by another request
Waits(r) == \E a \in Wants(r) : lockHolder[a] \notin {NoReq, r}

\* a set of requests each of which waits for a lock another one of them holds
CircularWait ==
    \E D \in SUBSET Reqs :
        /\ D # {}
        /\ \A r \in D : \E a \in Wants(r) : lockHolder[a] \in D \ {r}

-----------------------------------------------------------------------------
(* Concurrent callers of update_balance. *)

NumCallers == 3

Deltas == {-300, 200}

NoExpenses == <<>>
NoTransfers == <<>>

UBMenu ==
    { Call("update_balance", u, 0, a, a, d, {}) :
        u \in Users, a \in AccountIds, d \in Deltas }

InitUB ==
    /\ \E rq \in Draw(UBMenu, NumCallers) : IdleInit(rq)
    /\ expenses = NoExpenses
    /\ transfers = NoTransfers

NextUB ==
    \/ \E r \in Reqs : call_update_balance(r)
    \/ \E r \in Reqs : Commit(r)
    \/ \E r \in Reqs : Rollback(r)

SpecUB == InitUB /\ [][NextUB]_vars

\* what the committed update_balance calls add up to on account a
AppliedDeltas(a) ==
    Sum([r \in Reqs |-> IF Committed(r) /\ req[r].acc = a THEN req[r].amt ELSE 0], Reqs)

\* C1: with any number of concurrent update_balance calls on an account, each
\* in a transaction of its own, the committed balance is the initial balance
\* plus the deltas of the calls that have committed, in every interleaving.
NoLostUpdate ==
    \A a \in Accounts :
        balance[a] = InitBalance[a] + AppliedDeltas(a)

\* all callers update the same account, with non-zero deltas, and all have committed
NoLostUpdateWitness ==
    /\ \A r \in Reqs : Committed(r) /\ req[r].acc = AcctA /\ req[r].amt # 0
    /\ balance[AcctA] # InitBalance[AcctA]


\* C10: update_balance on an account that exists but belongs to another user
\* fails with 404 (NotFound), takes no lock and writes nothing; the balance
\* of that account stays what the owner's committed calls made it.
OwnershipIsolation ==
    \A r \in Reqs :
        (/\ req[r].kind = "update_balance"
         /\ req[r].acc \in Accounts
         /\ Owner[req[r].acc] # req[r].user
         /\ pc[r] # "start")
        => /\ status[r] = "404"
           /\ HeldBy(r) = {}
           /\ Dirty(r) = {}
           /\ balance[req[r].acc] =
                InitBalance[req[r].acc]
                + Sum([q \in Reqs |->
                         IF /\ Committed(q)
                            /\ req[q].acc = req[r].acc
                            /\ req[q].user = Owner[req[r].acc]
                         THEN req[q].amt ELSE 0], Reqs)

\* userX's call on userY's account has failed, and userY's own call has committed
OwnershipIsolationWitness ==
    \E r, q \in Reqs :
        /\ req[r].acc = AcctC /\ req[r].user = UserX /\ req[r].amt # 0
        /\ pc[r] = "done" /\ status[r] = "404"
        /\ req[q].acc = AcctC /\ req[q].user = UserY /\ Committed(q)

-----------------------------------------------------------------------------
(* Concurrent callers of transfer_balance. *)

NumTransfers == 2

TransferAmounts == {300}

TBMenu ==
    { Call("transfer_balance", u, 0, a, b, m, {}) :
        u \in Users, a \in Accounts, b \in Accounts, m \in TransferAmounts }

InitTB ==
    /\ \E rq \in Draw(TBMenu, NumTransfers) : IdleInit(rq)
    /\ expenses = NoExpenses
    /\ transfers = NoTransfers

NextTB ==
    \/ \E r \in Reqs : transfer_balance_first(r)
    \/ \E r \in Reqs : transfer_balance_second(r)
    \/ \E r \in Reqs : Commit(r)
    \/ \E r \in Reqs : Rollback(r)

SpecTB == InitTB /\ [][NextTB]_vars

\* the event loop and the database let a statement that can run, run
FairSpecTB == SpecTB /\ WF_vars(NextTB)

\* both accounts of the transfer are the caller's, and they differ
ValidTransfer(r) ==
    /\ Matches(req[r].acc, req[r].user)
    /\ Matches(req[r].acc2, req[r].user)
    /\ req[r].acc # req[r].acc2

\* C6: concurrent transfers between the same accounts, also in opposite
\* directions, never wait for each other's locks in a cycle, and under fair
\* scheduling every transfer ends, the valid ones committed.
DeadlockFreedom ==
    /\ [](~CircularWait)
    /\ <>[](\A r \in 1..NumTransfers :
               /\ pc[r] = "done"
               /\ ValidTransfer(r) => status[r] = "ok")

\* A to B and B to A in flight together: one holds its first lock, the other
\* waits for that same lock
DeadlockFreedomWitness ==
    \E r, q \in Reqs :
        /\ r # q
        /\ ValidTransfer(r) /\ ValidTransfer(q)
        /\ req[r].acc = req[q].acc2 /\ req[r].acc2 = req[q].acc
        /\ pc[r] = "tb_second"
        /\ Waits(q)

\* C7: a transfer_balance call on two distinct accounts locks the account
\* with the smaller id string first and the other second, whichever of them
\* is the from account.
LockOrder ==
    \A r \in Reqs :
        (req[r].kind = "transfer_balance" /\ req[r].acc # req[r].acc2) =>
            LET lo == IF StrLess(Str(req[r].acc), Str(req[r].acc2))
                      THEN req[r].acc ELSE req[r].acc2
                hi == IF lo = req[r].acc THEN req[r].acc2 ELSE req[r].acc
            IN  /\ pc[r] = "start" => HeldBy(r) = {}
                /\ pc[r] = "tb_second" => HeldBy(r) = {lo}
                /\ pc[r] = "commit" => HeldBy(r) = {lo, hi}

\* the from account has the larger id string, and the to account is the one
\* locked first
LockOrderWitness ==
    \E r \in Reqs :
        /\ req[r].kind = "transfer_balance"
        /\ StrLess(Str(req[r].acc2), Str(req[r].acc))
        /\ pc[r] = "tb_second"
        /\ HeldBy(r) = {req[r].acc2}

\* C9 (as claimed): a transfer from an account to itself is rejected with
\* 400 (invalid argument) and changes nothing, in create_transfer and in
\* transfer_balance alike.
SameAccountRejected ==
    \A r \in Reqs :
        (/\ req[r].kind \in {"transfer_balance", "create_transfer"}
         /\ req[r].acc = req[r].acc2
         /\ Matches(req[r].acc, req[r].user)
         /\ pc[r] = "done")
        => /\ status[r] = "400"
           /\ Dirty(r) = {}

-----------------------------------------------------------------------------
(* Concurrent requests to the expense and transfer endpoints. *)

NumRequests == 2

\* the ledger before the requests, already counted in InitBalance
InitExpenses ==
    (1 :> [user_id |-> UserX, account_id |-> AcctA, amount |-> 150]) @@
    (2 :> [user_id |-> UserX, account_id |-> AcctB, amount |-> 100])

InitTransfers ==
    (1 :> [from_account_id |-> AcctA, to_account_id |-> AcctB, amount |-> 300])

\* ids of rows a request may name: the rows there are, and one there is not
ExpenseIds == {1, 2, 9}
TransferIds == {1, 9}

ExpenseKeys == {"account_id", "amount"}
TransferKeys == {"from_account_id", "to_account_id", "amount"}

\* an argument the request body leaves unset
Arg(key, fields, values, unset) == IF key \in fields THEN values ELSE {unset}

LedgerMenu ==
    { Call("create_expense", UserX, 0, a, a, 150, {}) : a \in AccountIds }
    \cup UNION { { Call("update_expense", UserX, i, a, a, m, f) :
                     i \in ExpenseIds,
                     a \in Arg("account_id", f, Accounts, AcctX),
                     m \in Arg("amount", f, {200}, 0) } : f \in SUBSET ExpenseKeys }
    \cup { Call("delete_expense", UserX, i, AcctX, AcctX, 0, {}) : i \in ExpenseIds }
    \cup { Call("create_transfer", UserX, 0, a, b, 300, {}) : a \in Accounts, b \in Accounts }
    \cup UNION { { Call("update_transfer", UserX, i, a, b, m, f) :
                     i \in {1},
                     a \in Arg("from_account_id", f, Accounts, AcctX),
                     b \in Arg("to_account_id", f, Accounts, AcctX),
                     m \in Arg("amount", f, {100}, 0) } : f \in SUBSET TransferKeys }
    \cup { Call("delete_transfer", UserX, i, AcctX, AcctX, 0, {}) : i \in TransferIds }

\* no two requests of a run update or delete the same expense or transfer row
DistinctRows(rq) ==
    \A i, j \in DOMAIN rq :
        (/\ i # j
         /\ \/ {rq[i].kind, rq[j].kind} \subseteq {"update_expense", "delete_expense"}
            \/ {rq[i].kind, rq[j].kind} \subseteq {"update_transfer", "delete_transfer"})
        => rq[i].id # rq[j].id

InitLedger ==
    /\ \E rq \in Draw(LedgerMenu, NumRequests) : DistinctRows(rq) /\ IdleInit(rq)
    /\ expenses = InitExpenses
    /\ transfers = InitTransfers

NextLedger ==
    \/ \E r \in Reqs : create_expense_check(r)
    \/ \E r \in Reqs : create_expense_update_balance(r)
    \/ \E r \in Reqs : update_expense_load(r)
    \/ \E r \in Reqs : update_expense_first(r)
    \/ \E r \in Reqs : update_expense_second(r)
    \/ \E r \in Reqs : delete_expense_load(r)
    \/ \E r \in Reqs : delete_expense_balance(r)
    \/ \E r \in Reqs : create_transfer_from(r)
    \/ \E r \in Reqs : create_transfer_to(r)
    \/ \E r \in Reqs : update_transfer_load(r)
    \/ \E r \in Reqs : update_transfer_old_from(r)
    \/ \E r \in Reqs : update_transfer_old_to(r)
    \/ \E r \in Reqs : update_transfer_new_from(r)
    \/ \E r \in Reqs : update_transfer_new_to(r)
    \/ \E r \in Reqs : delete_transfer_load(r)
    \/ \E r \in Reqs : delete_transfer_from(r)
    \/ \E r \in Reqs : delete_transfer_to(r)
    \/ \E r \in Reqs : Commit(r)
    \/ \E r \in Reqs : Rollback(r)

SpecLedger == InitLedger /\ [][NextLedger]_vars

\* the delta request r implies for account a: what it reverses (the old row,
\* as the handler read it) and what it applies (the new row)
ImpliedDelta(r, a) ==
    CASE req[r].kind = "create_expense" ->
            IF a = req[r].acc THEN -req[r].amt ELSE 0
      [] req[r].kind = "create_transfer" ->
            (IF a = req[r].acc THEN -req[r].amt ELSE 0)
            + (IF a = req[r].acc2 THEN req[r].amt ELSE 0)
      [] OTHER ->
            (IF a = local[r].old_account_id THEN local[r].old_amount ELSE 0)
            - (IF a = local[r].old_to_account_id THEN local[r].old_amount ELSE 0)
            - (IF a = local[r].new_account_id THEN local[r].new_amount ELSE 0)
            + (IF a = local[r].new_to_account_id THEN local[r].new_amount ELSE 0)

\* C2 (as claimed): whatever expense and transfer requests run concurrently,
\* each account's committed balance is its initial balance plus the deltas
\* implied by the requests that have committed.
Conservation ==
    \A a \in Accounts :
        balance[a] = InitBalance[a]
                     + Sum([r \in Reqs |-> IF Committed(r) THEN ImpliedDelta(r, a) ELSE 0],
                           Reqs)

\* C3 (as claimed): every balance a committed transaction wrote is of an
\* account row the transaction had locked with SELECT .. FOR UPDATE; no
\* endpoint writes a balance without taking that lock.
LockedWritesOnly ==
    \A r \in Reqs :
        Committed(r) => Dirty(r) \subseteq forUpdate[r]

\* C4 (as claimed): the balance update_balance adds its delta to in
\* create_expense is the one the row holds when the lock is granted, so that
\* concurrent create_expense requests on one account commit to the initial
\* balance minus all their amounts.
LockedReadInCreateExpense ==
    /\ \A r \in Reqs :
          (req[r].kind = "create_expense" /\ pc[r] = "commit")
          => attr[r][req[r].acc] = balance[req[r].acc] - req[r].amt
    /\ \A a \in Accounts :
          (\A r \in Reqs : /\ req[r].kind = "create_expense"
                           /\ req[r].acc = a
                           /\ Committed(r))
          => balance[a] = InitBalance[a] - Sum([r \in Reqs |-> req[r].amt], Reqs)

\* C5 (as claimed): in every committed state each transfer is applied on
\* both of its accounts or on neither: the balances are those of some set of
\* the committed transfers applied in full.
TransferAtomicity ==
    (\A r \in Reqs : req[r].kind = "create_transfer")
    => \E S \in SUBSET {r \in Reqs : Committed(r)} :
          \A a \in Accounts :
              balance[a] = InitBalance[a]
                           + Sum([r \in Reqs |-> IF r \in S THEN ImpliedDelta(r, a) ELSE 0],
                                 Reqs)

\* C8 (as claimed): concurrent balance-mutating requests on the same two
\* accounts never wait for each other's row locks in a cycle.
NoCircularWait == ~CircularWait

-----------------------------------------------------------------------------
(* update_balance on an account that is missing or is another user's. *)

\* what the caller of update_balance can tell of its call: the response, and
\* what the call has locked, loaded and changed in its transaction
Outcome(r) ==
    [status |-> status[r], locked |-> HeldBy(r), selected |-> forUpdate[r],
     loaded |-> DOMAIN loaded[r], written |-> Dirty(r), blocked |-> Waits(r)]

\* C11: update_balance answers a call on an account id that does not exist
\* and a call on an account of another user alike: the same 404, nothing
\* locked, loaded or written, and neither call ever waits for a lock.
MissingOrForeignAlike ==
    \A r, q \in Reqs :
        (/\ req[r].kind = "update_balance" /\ req[q].kind = "update_balance"
         /\ req[r].user = req[q].user
         /\ req[r].acc \notin Accounts
         /\ req[q].acc \in Accounts /\ Owner[req[q].acc] # req[q].user)
        => /\ ~Waits(r) /\ ~Waits(q)
           /\ (pc[r] = pc[q]) => (Outcome(r) = Outcome(q))
           /\ pc[r] # "start" => status[r] = "404"
           /\ pc[q] # "start" => status[q] = "404"

\* userX has called update_balance on a missing account and on userY's
\* account, both calls are over, and userY's account is locked meanwhile by
\* userY's own call
MissingOrForeignAlikeWitness ==
    \E r, q, o \in Reqs :
        /\ req[r].user = UserX /\ req[r].acc = AcctX /\ pc[r] = "done"
        /\ req[q].user = UserX /\ req[q].acc = AcctC /\ pc[q] = "done"
        /\ req[o].user = UserY /\ req[o].acc = AcctC /\ pc[o] = "commit"

-----------------------------------------------------------------------------
(* The expense rows and the balances they account for. *)

\* the balance of account a that the committed expense rows account for: the
\* initial balance, less the rows created since, plus the rows deleted since
LedgerBalance(a) ==
    LET created == {i \in DOMAIN expenses \ DOMAIN InitExpenses :
                      expenses[i].account_id = a}
        deleted == {i \in DOMAIN InitExpenses \ DOMAIN expenses :
                      InitExpenses[i].account_id = a}
    IN  InitBalance[a]
        - Sum([i \in created |-> expenses[i].amount], created)
        + Sum([i \in deleted |-> InitExpenses[i].amount], deleted)

\* C12 (as claimed): update_balance does not commit, the row and the balance
\* change of create_expense and of delete_expense become committed together,
\* and in every committed state the expense rows that exist are exactly the
\* ones whose debit the balance of their account includes.
DebitCommitsWithRow ==
    (\A r \in Reqs : req[r].kind \in {"create_expense", "delete_expense"})
    => /\ \A r \in Reqs :
             req[r].kind = "create_expense"
             => (NewId(r) \in DOMAIN expenses <=> Committed(r))
       /\ \A r \in Reqs :
             (req[r].kind = "delete_expense" /\ req[r].id \in DOMAIN InitExpenses)
             => (req[r].id \notin DOMAIN expenses <=> Committed(r))
       /\ \A a \in Accounts : balance[a] = LedgerBalance(a)

-----------------------------------------------------------------------------
(* Transfers whose accounts are missing or are another user's. *)

LookupMenu ==
    { Call(k, UserX, 0, a, b, m, {}) :
        k \in {"transfer_balance", "create_transfer"},
        a \in AccountIds, b \in AccountIds, m \in TransferAmounts }

InitLookup ==
    /\ \E rq \in Draw(LookupMenu, NumTransfers) : IdleInit(rq)
    /\ expenses = NoExpenses
    /\ transfers = NoTransfers

NextLookup ==
    \/ \E r \in Reqs : transfer_balance_first(r)
    \/ \E r \in Reqs : transfer_balance_second(r)
    \/ \E r \in Reqs : create_transfer_from(r)
    \/ \E r \in Reqs : create_transfer_to(r)
    \/ \E r \in Reqs : Commit(r)
    \/ \E r \in Reqs : Rollback(r)

SpecLookup == InitLookup /\ [][NextLookup]_vars

\* no row has this id and this owner
NoSuchAccount(account_id, user_id) ==
    \/ account_id \notin Accounts
    \/ Owner[account_id] # user_id

\* one of the two account lookups of request r finds no row
LookupFails(r) ==
    \/ NoSuchAccount(req[r].acc, req[r].user)
    \/ NoSuchAccount(req[r].acc2, req[r].user)

\* C13: a transfer one of whose account lookups fails ends with 404
\* (NotFound) and no step of it changes a committed balance; so also when
\* the account locked first exists and only the second lookup fails.
LookupFailureAborts ==
    /\ [](\A r \in 1..NumTransfers :
             LookupFails(r)
             => /\ pc[r] # "commit"
                /\ pc[r] = "done" => status[r] = "404")
    /\ [][\A r \in 1..NumTransfers :
             (LookupFails(r) /\ pc'[r] # pc[r]) => balance' = balance]_vars

\* transfer_balance holds the lock of its first account, which is the
\* caller's, and the lookup of the second has failed
LookupFailureAbortsWitness ==
    \E r \in Reqs :
        /\ req[r].kind = "transfer_balance"
        /\ pc[r] = "failed"
        /\ status[r] = "404"
        /\ HeldBy(r) # {}

-----------------------------------------------------------------------------
(* Requests that abort after they have applied balance deltas. *)

NumAborting == 2

\* the caller goes away or the request times out while the handler waits:
\* the handler is cancelled where it stands and ends with an exception
Cancel(r) ==
    /\ pc[r] \notin {"done", "failed"}
    /\ pc' = [pc EXCEPT ![r] = "failed"]
    /\ status' = [status EXCEPT ![r] = "cancelled"]
    /\ UNCHANGED <<balance, lockHolder, expenses, transfers, req, accounts, refresh_tokens, loaded, attr,
                   forUpdate, local>>

AbortMenu ==
    { Call("update_balance", UserX, 0, AcctA, AcctA, -300, {}),
      Call("create_expense", UserX, 0, AcctB, AcctB, 150, {}),
      Call("update_expense", UserX, 1, AcctC, AcctC, 0, {"account_id"}),
      Call("update_expense", UserX, 1, AcctB, AcctB, 0, {"account_id"}),
      Call("update_expense", UserX, 2, AcctC, AcctC, 0, {"account_id"}),
      Call("update_transfer", UserX, 1, AcctX, AcctC, 0, {"to_account_id"}),
      Call("update_transfer", UserX, 1, AcctX, AcctA, 0, {"to_account_id"}),
      Call("update_transfer", UserX, 1, AcctX, AcctX, 100, {"amount"}) }

InitAbort ==
    /\ \E rq \in Draw(AbortMenu, NumAborting) : DistinctRows(rq) /\ IdleInit(rq)
    /\ expenses = InitExpenses
    /\ transfers = InitTransfers

NextAbort ==
    \/ \E r \in Reqs : call_update_balance(r)
    \/ \E r \in Reqs : create_expense_check(r)
    \/ \E r \in Reqs : create_expense_update_balance(r)
    \/ \E r \in Reqs : update_expense_load(r)
    \/ \E r \in Reqs : update_expense_first(r)
    \/ \E r \in Reqs : update_expense_second(r)
    \/ \E r \in Reqs : update_transfer_load(r)
    \/ \E r \in Reqs : update_transfer_old_from(r)
    \/ \E r \in Reqs : update_transfer_old_to(r)
    \/ \E r \in Reqs : update_transfer_new_from(r)
    \/ \E r \in Reqs : update_transfer_new_to(r)
    \/ \E r \in Reqs : Cancel(r)
    \/ \E r \in Reqs : Commit(r)
    \/ \E r \in Reqs : Rollback(r)

SpecAbort == InitAbort /\ [][NextAbort]_vars

\* C14: a transaction that aborts (an error is raised, or it is cancelled)
\* after it has applied balance deltas changes no committed balance and no
\* committed row at any of its steps, and once it is over it holds no lock.
AbortDiscardsAll ==
    /\ [](\A r \in 1..NumAborting :
             (pc[r] = "done" /\ status[r] # "ok") => HeldBy(r) = {})
    /\ [][\A r \in 1..NumAborting :
             (pc'[r] # pc[r] /\ status'[r] # "ok")
             => /\ balance' = balance
                /\ expenses' = expenses
                /\ transfers' = transfers]_vars

\* one request has failed with 404 and another was cancelled, each after an
\* update_balance of it had taken a lock and changed a balance in its
\* transaction; both are over
AbortDiscardsAllWitness ==
    \E r, q \in Reqs :
        /\ pc[r] = "done" /\ status[r] = "404" /\ forUpdate[r] # {}
        /\ pc[q] = "done" /\ status[q] = "cancelled" /\ forUpdate[q] # {}

-----------------------------------------------------------------------------
(* Requests one after the other: an expense created, changed and deleted;  *)
(* a transfer created and deleted.                                          *)

ExpenseAmounts == {150, 1200}
NewAmounts == {200, 50, 150}
SeqTransferAmounts == {300, 1200}

\* create_expense, then update_expense of that expense's amount, then
\* delete_expense of it
ExpenseScenarios ==
    { << Call("create_expense", UserX, 0, acc, acc, a, {}),
         Call("update_expense", UserX, NewId(1), AcctX, AcctX, a2, {"amount"}),
         Call("delete_expense", UserX, NewId(1), AcctX, AcctX, 0, {}) >> :
        acc \in AccountsOf(UserX), a \in ExpenseAmounts, a2 \in NewAmounts }

\* create_transfer, then delete_transfer of that transfer
TransferScenarios ==
    { << Call("create_transfer", UserX, 0, ab[1], ab[2], m, {}),
         Call("delete_transfer", UserX, NewId(1), AcctX, AcctX, 0, {}) >> :
        ab \in {p \in AccountsOf(UserX) \X AccountsOf(UserX) : p[1] # p[2]},
        m \in SeqTransferAmounts }

InitSeq ==
    /\ \E rq \in ExpenseScenarios \cup TransferScenarios : IdleInit(rq)
    /\ expenses = InitExpenses
    /\ transfers = InitTransfers

\* request r is sent when the responses of the requests before it are in
Turn(r) == \A q \in 1..(r - 1) : pc[q] = "done"

NextSeq ==
    \/ \E r \in Reqs : Turn(r) /\ create_expense_check(r)
    \/ \E r \in Reqs : Turn(r) /\ create_expense_update_balance(r)
    \/ \E r \in Reqs : Turn(r) /\ update_expense_load(r)
    \/ \E r \in Reqs : Turn(r) /\ update_expense_first(r)
    \/ \E r \in Reqs : Turn(r) /\ delete_expense_load(r)
    \/ \E r \in Reqs : Turn(r) /\ delete_expense_balance(r)
    \/ \E r \in Reqs : Turn(r) /\ create_transfer_from(r)
    \/ \E r \in Reqs : Turn(r) /\ create_transfer_to(r)
    \/ \E r \in Reqs : Turn(r) /\ delete_transfer_load(r)
    \/ \E r \in Reqs : Turn(r) /\ delete_transfer_from(r)
    \/ \E r \in Reqs : Turn(r) /\ delete_transfer_to(r)
    \/ \E r \in Reqs : Turn(r) /\ Commit(r)

SpecSeq == InitSeq /\ [][NextSeq]_vars

\* C15: an expense of amount a created on an account of balance b leaves
\* b - a; its amount changed to a2 leaves b - a2; the expense deleted leaves
\* b again; the three requests succeed and no other account changes.
ExpenseLifecycle ==
    req[1].kind = "create_expense"
    => LET acc == req[1].acc
           b == InitBalance[acc]
       IN  /\ \A r \in Reqs : status[r] \in {"pending", "ok"}
           /\ balance[acc] = IF ~Committed(1) THEN b
                             ELSE IF ~Committed(2) THEN b - req[1].amt
                             ELSE IF ~Committed(3) THEN b - req[2].amt
                             ELSE b
           /\ \A o \in Accounts \ {acc} : balance[o] = InitBalance[o]
           /\ Committed(1) /\ ~Committed(3)
              => /\ NewId(1) \in DOMAIN expenses
                 /\ expenses[NewId(1)].amount =
                       IF Committed(2) THEN req[2].amt ELSE req[1].amt
           /\ Committed(3) => NewId(1) \notin DOMAIN expenses

\* the documented scenario: 150 on a balance of 1000, changed to 200 (the
\* balance is 800 when the delete request has loaded the expense), deleted
ExpenseLifecycleWitness ==
    /\ req[1].kind = "create_expense" /\ req[1].acc = AcctA
    /\ InitBalance[AcctA] = 1000 /\ req[1].amt = 150 /\ req[2].amt = 200
    /\ Committed(3)
    /\ balance[AcctA] = 1000
    /\ local[3].old_amount = 200

\* C16: a transfer of m from A to B leaves A = a - m and B = b + m; the
\* transfer deleted leaves a and b again; both requests succeed.
TransferRoundTrip ==
    req[1].kind = "create_transfer"
    => LET m == IF Committed(1) /\ ~Committed(2) THEN req[1].amt ELSE 0
       IN  /\ \A r \in Reqs : status[r] \in {"pending", "ok"}
           /\ balance[req[1].acc] = InitBalance[req[1].acc] - m
           /\ balance[req[1].acc2] = InitBalance[req[1].acc2] + m
           /\ \A o \in Accounts \ {req[1].acc, req[1].acc2} :
                 balance[o] = InitBalance[o]
           /\ NewId(1) \in DOMAIN transfers <=> (Committed(1) /\ ~Committed(2))

\* the documented scenario: 300 from A (1000) to B (500), and the transfer
\* deleted again
TransferRoundTripWitness ==
    /\ req[1].kind = "create_transfer"
    /\ req[1].acc = AcctA /\ req[1].acc2 = AcctB /\ req[1].amt = 300
    /\ Committed(2)
    /\ local[2].old_amount = 300
    /\ balance[AcctA] = 1000 /\ balance[AcctB] = 500

-----------------------------------------------------------------------------
(* update_balance with deltas of either sign and zero. *)

NumDeltaCalls == 2

SignedDeltas == {-1200, 0, 300}

DeltaMenu ==
    { Call("update_balance", UserX, 0, a, a, d, {}) :
        a \in {AcctA, AcctC}, d \in SignedDeltas }

InitDelta ==
    /\ \E rq \in Draw(DeltaMenu, NumDeltaCalls) : IdleInit(rq)
    /\ expenses = NoExpenses
    /\ transfers = NoTransfers

SpecDelta == InitDelta /\ [][NextUB]_vars

\* C17: update_balance on an account of the caller is never rejected,
\* whatever the sign of the delta, and sets the balance to exactly the
\* balance the row holds plus the delta, below zero as well.
ExactDelta ==
    /\ \A r \in Reqs :
          (req[r].kind = "update_balance" /\ Matches(req[r].acc, req[r].user))
          => /\ status[r] \in {"pending", "ok"}
             /\ pc[r] \notin {"failed"}
             /\ pc[r] = "commit" => attr[r][req[r].acc] = balance[req[r].acc] + req[r].amt
    /\ \A a \in Accounts : balance[a] = InitBalance[a] + AppliedDeltas(a)

\* a call with delta zero and a call that takes the balance below zero have
\* both committed on one account
ExactDeltaWitness ==
    \E r, q \in Reqs :
        /\ req[r].acc = AcctA /\ req[r].amt = 0 /\ Committed(r)
        /\ req[q].acc = AcctA /\ req[q].amt < 0 /\ Committed(q)
        /\ balance[AcctA] < 0

-----------------------------------------------------------------------------
(* The row lock of an account. *)

\* request r is in flight: its transaction has neither committed nor been
\* rolled back
InFlight(r) == pc[r] # "done"

\* C19: no two transactions in flight have the same account row selected
\* FOR UPDATE, and a transaction in flight still holds the lock of every row
\* it has selected FOR UPDATE: the lock is not given up between the read and
\* the write of the balance.
ExclusiveUntilEnd ==
    /\ \A r, q \in Reqs :
          (r # q /\ InFlight(r) /\ InFlight(q))
          => forUpdate[r] \cap forUpdate[q] = {}
    /\ \A r \in Reqs :
          InFlight(r) => forUpdate[r] \subseteq HeldBy(r)

\* one caller has read and changed the balance under the lock and has not
\* committed yet, another caller of the same account waits
ExclusiveUntilEndWitness ==
    \E r, q \in Reqs :
        /\ r # q
        /\ req[r].acc = req[q].acc
        /\ pc[r] = "commit" /\ Dirty(r) = {req[r].acc}
        /\ pc[q] = "start" /\ Waits(q)

-----------------------------------------------------------------------------
(* Transfers of any amount, positive or not. *)

AnyAmounts == {-100, 0, 300}

\* TransferCreate.amount and TransferUpdate.amount: Field(.., gt=0); the
\* arguments of transfer_balance pass no schema
BodyValid(r) ==
    CASE req[r].kind = "create_transfer" -> req[r].amt > 0
      [] req[r].kind = "update_transfer" ->
            ("amount" \in req[r].fields => req[r].amt > 0)
      [] OTHER -> TRUE

\* a request body that fails its schema is answered with 422 and the handler
\* is not called
RequestValidation(r) ==
    /\ pc[r] = "start"
    /\ ~BodyValid(r)
    /\ pc' = [pc EXCEPT ![r] = "done"]
    /\ status' = [status EXCEPT ![r] = "422"]
    /\ UNCHANGED <<balance, lockHolder, expenses, transfers, req, accounts, refresh_tokens, loaded, attr,
                   forUpdate, local>>

AmountMenu ==
    { Call("transfer_balance", UserX, 0, AcctA, AcctB, m, {}) : m \in AnyAmounts }
    \cup { Call("transfer_balance", UserX, 0, AcctB, AcctA, m, {}) : m \in AnyAmounts }
    \cup { Call("create_transfer", UserX, 0, AcctA, b, m, {}) :
             b \in {AcctA, AcctB}, m \in AnyAmounts }
    \cup { Call("update_transfer", UserX, 1, AcctX, AcctX, m, {"amount"}) :
             m \in AnyAmounts }

InitAmount ==
    /\ \E rq \in Draw(AmountMenu, NumTransfers) : DistinctRows(rq) /\ IdleInit(rq)
    /\ expenses = NoExpenses
    /\ transfers = InitTransfers

NextAmount ==
    \/ \E r \in Reqs : RequestValidation(r)
    \/ \E r \in Reqs : BodyValid(r) /\ create_transfer_from(r)
    \/ \E r \in Reqs : create_transfer_to(r)
    \/ \E r \in Reqs : BodyValid(r) /\ update_transfer_load(r)
    \/ \E r \in Reqs : update_transfer_old_from(r)
    \/ \E r \in Reqs : update_transfer_old_to(r)
    \/ \E r \in Reqs : update_transfer_new_from(r)
    \/ \E r \in Reqs : update_transfer_new_to(r)
    \/ \E r \in Reqs : transfer_balance_first(r)
    \/ \E r \in Reqs : transfer_balance_second(r)
    \/ \E r \in Reqs : Commit(r)
    \/ \E r \in Reqs : Rollback(r)

SpecAmount == InitAmount /\ [][NextAmount]_vars

\* C18 (as claimed): a transfer of an amount that is not positive is
\* rejected as an invalid argument before it has locked or loaded any
\* account row, and it changes no balance; in create_transfer, in
\* update_transfer and in transfer_balance.
NonPositiveAmountRejected ==
    \A r \in Reqs :
        (/\ req[r].kind \in {"transfer_balance", "create_transfer", "update_transfer"}
         /\ req[r].amt <= 0)
        => /\ forUpdate[r] = {}
           /\ HeldBy(r) = {}
           /\ Dirty(r) = {}
           /\ pc[r] # "commit"
           /\ pc[r] = "done" => status[r] \in {"400", "422"}

-----------------------------------------------------------------------------
(* Waiting for the row lock. *)

\* the event loop and the database let a statement that can run, run
FairSpecUB == SpecUB /\ WF_vars(NextUB)

\* C20: an update_balance call whose row lock no other transaction holds
\* can take its step at once; a call that waits for the lock gets past the
\* wait once the holder has committed or rolled back; and under fair
\* scheduling every call comes to its end, committed or failed.
LockWaitEnds ==
    /\ [](\A r \in 1..NumCallers :
             (pc[r] = "start" /\ ~Waits(r)) => ENABLED call_update_balance(r))
    /\ \A r \in 1..NumCallers : (Waits(r) ~> pc[r] # "start")
    /\ <>[](\A r \in 1..NumCallers :
               pc[r] = "done" /\ status[r] \in {"ok", "404"})

\* a call waits for the lock that another call of the same account holds,
\* while a third call of that account has already committed
LockWaitEndsWitness ==
    \E r, q, o \in Reqs :
        /\ pc[r] = "start" /\ Waits(r)
        /\ lockHolder[req[r].acc] = q /\ pc[q] = "commit"
        /\ req[o].acc = req[r].acc /\ Committed(o)

-----------------------------------------------------------------------------
(* update_expense, one request after the other. *)

NumUpdates == 2

\* the expense rows with their memo
MemoExpenses ==
    [i \in DOMAIN InitExpenses |->
       [user_id |-> InitExpenses[i].user_id,
        account_id |-> InitExpenses[i].account_id,
        amount |-> InitExpenses[i].amount,
        memo |-> "lunch"]]

\* the bodies of PATCH /expenses/{id}: any of account_id and amount, or the
\* memo alone
UpdateExpenseBodies == (SUBSET ExpenseKeys) \cup {{"memo"}}

UpdateExpenseMenu ==
    UNION { { [kind |-> "update_expense", user |-> UserX, id |-> i, acc |-> a,
               acc2 |-> a, amt |-> m, fields |-> f, memo |-> "dinner"] :
                i \in DOMAIN InitExpenses,
                a \in Arg("account_id", f, AccountIds, AcctX),
                m \in Arg("amount", f, {200}, 0) } : f \in UpdateExpenseBodies }

InitUpdateExpense ==
    /\ \E rq \in [1..NumUpdates -> UpdateExpenseMenu] : IdleInit(rq)
    /\ expenses = MemoExpenses
    /\ transfers = InitTransfers

NextUpdateExpense ==
    \/ \E r \in Reqs : Turn(r) /\ update_expense_load(r)
    \/ \E r \in Reqs : Turn(r) /\ update_expense_first(r)
    \/ \E r \in Reqs : Turn(r) /\ update_expense_second(r)
    \/ \E r \in Reqs : Turn(r) /\ Commit(r)
    \/ \E r \in Reqs : Turn(r) /\ Rollback(r)

SpecUpdateExpense == InitUpdateExpense /\ [][NextUpdateExpense]_vars

\* the total of the expenses recorded on account a
ExpenseTotal(a) ==
    LET on == {i \in DOMAIN expenses : expenses[i].account_id = a}
    IN  Sum([i \in on |-> expenses[i].amount], on)

\* the sum over the accounts of balance + expenses recorded
BalancePlusExpenses ==
    Sum([a \in Accounts |-> balance[a] + ExpenseTotal(a)], Accounts)

\* C21: the commit of an update_expense changes the balances by exactly
\* old_amount - new_amount on the account when the account stays, by
\* +old_amount on the old and -new_amount on the new account when it changes,
\* and leaves the sum over the accounts of balance + recorded expenses as it
\* was.
UpdateExpenseDeltas ==
    [][\A r \in Reqs :
         (req[r].kind = "update_expense" /\ pc[r] = "commit" /\ pc'[r] = "done")
         => LET old == expenses[req[r].id]
                new_amount == IF "amount" \in req[r].fields
                              THEN req[r].amt ELSE old.amount
                new_account_id == IF "account_id" \in req[r].fields
                                  THEN req[r].acc ELSE old.account_id
            IN  /\ \A a \in Accounts :
                      balance'[a] = balance[a]
                                    + (IF a = old.account_id THEN old.amount ELSE 0)
                                    - (IF a = new_account_id THEN new_amount ELSE 0)
                /\ expenses'[req[r].id].amount = new_amount
                /\ expenses'[req[r].id].account_id = new_account_id
                /\ BalancePlusExpenses' = BalancePlusExpenses]_vars

\* expense 1 of 150 has moved from AcctA to AcctB with the amount 200, and
\* then back to AcctA
UpdateExpenseDeltasWitness ==
    /\ Committed(1) /\ Committed(2)
    /\ req[1].id = 1 /\ req[1].fields = {"account_id", "amount"} /\ req[1].acc = AcctB
    /\ req[2].id = 1 /\ req[2].fields = {"account_id"} /\ req[2].acc = AcctA
    /\ balance[AcctA] = InitBalance[AcctA] + 150 - 200
    /\ balance[AcctB] = InitBalance[AcctB]

\* update_expense moves its expense to an account that has no row with this
\* id and the user as owner
MovesToNoAccount(r) ==
    /\ req[r].kind = "update_expense"
    /\ "account_id" \in req[r].fields
    /\ NoSuchAccount(req[r].acc, req[r].user)

\* C22: an update_expense that moves the expense to an account that does not
\* exist or is not the user's restores old_amount to the old account in its
\* transaction, then fails with 404; no step of it changes a committed
\* balance or an expense row, and it never commits.
MoveToNoAccountFails ==
    /\ [](\A r \in Reqs :
             MovesToNoAccount(r)
             => /\ pc[r] # "commit"
                /\ pc[r] = "failed"
                   => /\ status[r] = "404"
                      /\ attr[r][local[r].old_account_id]
                           = balance[local[r].old_account_id] + local[r].old_amount
                /\ pc[r] = "done" => status[r] = "404")
    /\ [][\A r \in Reqs :
             (MovesToNoAccount(r) /\ pc'[r] # pc[r])
             => /\ balance' = balance
                /\ expenses' = expenses]_vars

\* the expense was to move to the account of another user, then to an
\* account that does not exist; both requests are over and every balance
\* and expense is as before
MoveToNoAccountFailsWitness ==
    /\ req[1].acc = AcctC /\ MovesToNoAccount(1)
    /\ req[2].acc = AcctX /\ MovesToNoAccount(2)
    /\ pc[1] = "done" /\ status[1] = "404"
    /\ pc[2] = "done" /\ status[2] = "404"
    /\ balance = InitBalance
    /\ expenses = MemoExpenses

\* update_expense whose body sets neither amount nor account_id
KeepsMoney(r) ==
    /\ req[r].kind = "update_expense"
    /\ "amount" \notin req[r].fields
    /\ "account_id" \notin req[r].fields

\* C28: an update_expense whose body has neither amount nor account_id
\* selects no account row FOR UPDATE, holds no row lock and changes no
\* balance in memory; no step of it changes a committed balance or a lock,
\* and its commit changes, of all expense rows, only the fields the body
\* sets, on the row it names.
NoMoneyNoLock ==
    /\ [](\A r \in Reqs :
             KeepsMoney(r)
             => /\ forUpdate[r] = {}
                /\ HeldBy(r) = {}
                /\ Dirty(r) = {}
                /\ pc[r] \in {"start", "commit", "done"})
    /\ [][\A r \in Reqs :
             (KeepsMoney(r) /\ pc'[r] # pc[r])
             => /\ balance' = balance
                /\ lockHolder' = lockHolder
                /\ \A i \in DOMAIN expenses :
                      /\ i \in DOMAIN expenses'
                      /\ \A field \in DOMAIN expenses[i] :
                            expenses'[i][field] =
                               IF /\ pc'[r] = "done"
                                  /\ i = req[r].id
                                  /\ field \in req[r].fields
                               THEN req[r].memo
                               ELSE expenses[i][field]]_vars

\* the memo of expense 1 has been rewritten and that of expense 2 has not;
\* an empty body has been committed as well
NoMoneyNoLockWitness ==
    /\ req[1].fields = {"memo"} /\ req[1].id = 1 /\ Committed(1)
    /\ req[2].fields = {} /\ req[2].id = 2 /\ Committed(2)
    /\ expenses[1].memo = "dinner"
    /\ expenses[2].memo = "lunch"
    /\ balance = InitBalance

-----------------------------------------------------------------------------
(* transfer_balance: the locks come before the writes. *)

\* C23: transfer_balance has written no balance, in memory or in the table,
\* before it holds the row locks of both accounts; once it holds them the
\* from account is debited and the to account credited by the same amount.
LocksBeforeWrites ==
    \A r \in Reqs :
        req[r].kind = "transfer_balance"
        => /\ pc[r] \in {"start", "tb_second", "failed"} => Dirty(r) = {}
           /\ pc[r] # "done" /\ Dirty(r) # {}
              => {req[r].acc, req[r].acc2} \subseteq HeldBy(r)
           /\ pc[r] = "commit"
              => /\ {req[r].acc, req[r].acc2} \subseteq HeldBy(r)
                 /\ forUpdate[r] = {req[r].acc, req[r].acc2}
                 /\ req[r].acc # req[r].acc2
                    => /\ attr[r][req[r].acc] = balance[req[r].acc] - req[r].amt
                       /\ attr[r][req[r].acc2] = balance[req[r].acc2] + req[r].amt
                 /\ req[r].acc = req[r].acc2
                    => attr[r][req[r].acc] = balance[req[r].acc]

\* one transfer holds both locks and has debited and credited; another holds
\* its first lock only and has written nothing
LocksBeforeWritesWitness ==
    \E r, q \in Reqs :
        /\ pc[r] = "commit" /\ req[r].acc # req[r].acc2
        /\ Dirty(r) = {req[r].acc, req[r].acc2}
        /\ pc[q] = "tb_second" /\ HeldBy(q) # {} /\ Dirty(q) = {}

-----------------------------------------------------------------------------
(* update_transfer, one request after the other. *)

NumRevisions == 2

\* the third account is the user's own, or another user's
AccountTables ==
    { [InitAccounts EXCEPT ![AcctC].user_id = u] : u \in Users }

\* the bodies of PATCH /transfers/{id} on the transfer there is
UpdateTransferMenu ==
    UNION { { Call("update_transfer", UserX, 1, a, b, m, f) :
                a \in Arg("from_account_id", f, AccountIds, AcctX),
                b \in Arg("to_account_id", f, Accounts, AcctX),
                m \in Arg("amount", f, {500}, 0) } : f \in SUBSET TransferKeys }

InitUpdateTransfer ==
    /\ \E rq \in [1..NumRevisions -> UpdateTransferMenu] : IdleRequests(rq)
    /\ accounts \in AccountTables
    /\ balance = InitBalance
    /\ refresh_tokens = {}
    /\ expenses = InitExpenses
    /\ transfers = InitTransfers

NextUpdateTransfer ==
    \/ \E r \in Reqs : Turn(r) /\ update_transfer_load(r)
    \/ \E r \in Reqs : Turn(r) /\ update_transfer_old_from(r)
    \/ \E r \in Reqs : Turn(r) /\ update_transfer_old_to(r)
    \/ \E r \in Reqs : Turn(r) /\ update_transfer_new_from(r)
    \/ \E r \in Reqs : Turn(r) /\ update_transfer_new_to(r)
    \/ \E r \in Reqs : Turn(r) /\ Commit(r)
    \/ \E r \in Reqs : Turn(r) /\ Rollback(r)

SpecUpdateTransfer == InitUpdateTransfer /\ [][NextUpdateTransfer]_vars

\* what the transfer t adds to the balance of account a
TransferEffect(t, a) ==
    (IF a = t.to_account_id THEN t.amount ELSE 0)
    - (IF a = t.from_account_id THEN t.amount ELSE 0)

\* the transfer that request r asks for, the stored one being old
Revised(r, old) ==
    [from_account_id |-> IF "from_account_id" \in req[r].fields
                         THEN req[r].acc ELSE old.from_account_id,
     to_account_id |-> IF "to_account_id" \in req[r].fields
                       THEN req[r].acc2 ELSE old.to_account_id,
     amount |-> IF "amount" \in req[r].fields THEN req[r].amt ELSE old.amount]

\* C24: the commit of an update_transfer leaves every balance as if the old
\* transfer had not been applied and the transfer with the new from account,
\* to account and amount had been: the balance less the effect of the old
\* transfer plus the effect of the new one, which is then the stored one.
UpdateTransferRevises ==
    /\ [](\A a \in Accounts :
             (\A r \in Reqs : pc[r] \in {"start", "done"})
             => balance[a] = InitBalance[a] - TransferEffect(InitTransfers[1], a)
                                            + TransferEffect(transfers[1], a))
    /\ [][\A r \in Reqs :
             (req[r].kind = "update_transfer" /\ pc[r] = "commit" /\ pc'[r] = "done")
             => LET old == transfers[req[r].id]
                    new == Revised(r, old)
                IN  /\ transfers'[req[r].id] = new
                    /\ \A a \in Accounts :
                          balance'[a] = balance[a] - TransferEffect(old, a)
                                                   + TransferEffect(new, a)]_vars

\* the transfer A to B of 300 became B to C of 500, and then from and to
\* were swapped
UpdateTransferRevisesWitness ==
    /\ Committed(1) /\ req[1].fields = TransferKeys
    /\ req[1].acc = AcctB /\ req[1].acc2 = AcctC
    /\ Committed(2) /\ req[2].fields = {"from_account_id", "to_account_id"}
    /\ req[2].acc = AcctC /\ req[2].acc2 = AcctB
    /\ balance[AcctA] = InitBalance[AcctA] + 300
    /\ balance[AcctB] = InitBalance[AcctB] - 300 + 500
    /\ balance[AcctC] = InitBalance[AcctC] - 500

\* the response update_transfer owes to request r, by the transfer it read
\* and the accounts the user has
Verdict(r) ==
    LET l == local[r]
    IN  IF /\ \/ l.new_account_id # l.old_account_id
              \/ l.new_to_account_id # l.old_to_account_id
           /\ \/ l.new_account_id \notin UserAccountIds(req[r].user)
              \/ l.new_to_account_id \notin UserAccountIds(req[r].user)
        THEN "404"
        ELSE IF l.new_account_id = l.new_to_account_id THEN "400" ELSE "ok"

\* C25: an update_transfer whose new accounts are not both the user's gets
\* 404, one whose new from and to accounts are the same gets 400; it has by
\* then restored the old amount to the old accounts in memory, it never
\* commits, and no step of it changes a committed balance or the stored
\* transfer.
RejectedUpdateTransfer ==
    /\ [](\A r \in Reqs :
             /\ pc[r] = "failed"
                => /\ status[r] = Verdict(r)
                   /\ status[r] \in {"404", "400"}
                   /\ attr[r][local[r].old_account_id]
                        = balance[local[r].old_account_id] + local[r].old_amount
                   /\ attr[r][local[r].old_to_account_id]
                        = balance[local[r].old_to_account_id] - local[r].old_amount
             /\ pc[r] \in {"ut_new_from", "ut_new_to", "commit"} => Verdict(r) = "ok")
    /\ [][\A r \in Reqs :
             (pc[r] # "commit" /\ pc'[r] # pc[r])
             => /\ balance' = balance
                /\ transfers' = transfers]_vars

\* a request that named an account that is not there got 404; the next one,
\* whose from account is the stored to account, has restored the old
\* balances in memory and is rejected with 400
RejectedUpdateTransferWitness ==
    /\ pc[1] = "done" /\ status[1] = "404" /\ req[1].acc = AcctX
    /\ pc[2] = "failed" /\ status[2] = "400"
    /\ Dirty(2) = {AcctA, AcctB}
    /\ balance = InitBalance
    /\ transfers = InitTransfers

-----------------------------------------------------------------------------
(* The rows of the transfers table. *)

TransferRowsMenu ==
    { Call("create_transfer", UserX, 0, a, b, 300, {}) :
        a \in Accounts, b \in Accounts }
    \cup UNION { { Call("update_transfer", UserX, 1, a, b, 0, f) :
                     a \in Arg("from_account_id", f, Accounts, AcctX),
                     b \in Arg("to_account_id", f, Accounts, AcctX) } :
                 f \in SUBSET {"from_account_id", "to_account_id"} }

InitTransferRows ==
    /\ \E rq \in Draw(TransferRowsMenu, NumRequests) : IdleRequests(rq)
    /\ accounts \in AccountTables
    /\ balance = InitBalance
    /\ refresh_tokens = {}
    /\ expenses = InitExpenses
    /\ transfers = InitTransfers

NextTransferRows ==
    \/ \E r \in Reqs : create_transfer_from(r)
    \/ \E r \in Reqs : create_transfer_to(r)
    \/ \E r \in Reqs : update_transfer_load(r)
    \/ \E r \in Reqs : update_transfer_old_from(r)
    \/ \E r \in Reqs : update_transfer_old_to(r)
    \/ \E r \in Reqs : update_transfer_new_from(r)
    \/ \E r \in Reqs : update_transfer_new_to(r)
    \/ \E r \in Reqs : Commit(r)
    \/ \E r \in Reqs : Rollback(r)

SpecTransferRows == InitTransferRows /\ [][NextTransferRows]_vars

\* C27 (as claimed): every stored transfer is between two different accounts
\* of one user.
TransferRowsValid ==
    \A i \in DOMAIN transfers :
        LET t == transfers[i]
        IN  /\ t.from_account_id # t.to_account_id
            /\ t.from_account_id \in DOMAIN accounts
            /\ t.to_account_id \in DOMAIN accounts
            /\ accounts[t.from_account_id].user_id = accounts[t.to_account_id].user_id

-----------------------------------------------------------------------------
(* endpoints/accounts.py: delete_account, and the ledger of the accounts    *)
(* that remain.                                                             *)

\* delete_account: the account is selected by id and owner
delete_account_load(r) ==
    /\ pc[r] = "start"
    /\ req[r].kind = "delete_account"
    /\ IF ~Matches(req[r].acc, req[r].user)
       THEN /\ NotFound(r)
            /\ UNCHANGED <<loaded, attr>>
       ELSE /\ Load(r, req[r].acc)
            /\ pc' = [pc EXCEPT ![r] = "da_delete"]
            /\ UNCHANGED status
    /\ UNCHANGED <<balance, lockHolder, expenses, transfers, req, accounts, refresh_tokens, forUpdate, local>>

\* delete_account: db.delete(account) deletes with the account its expenses,
\* transfers_from and transfers_to (cascade="all, delete-orphan"), and
\* db.commit(); the DELETE of the row waits for its row lock.  The balance
\* of the row that is gone is not read again.
delete_account_commit(r) ==
    /\ pc[r] = "da_delete"
    /\ RowWritable(r, req[r].acc)
    /\ accounts' = [a \in DOMAIN accounts \ {req[r].acc} |-> accounts[a]]
    /\ expenses' = [i \in {j \in DOMAIN expenses :
                             expenses[j].account_id # req[r].acc} |-> expenses[i]]
    /\ transfers' = [i \in {j \in DOMAIN transfers :
                              /\ transfers[j].from_account_id # req[r].acc
                              /\ transfers[j].to_account_id # req[r].acc} |-> transfers[i]]
    /\ pc' = [pc EXCEPT ![r] = "done"]
    /\ status' = [status EXCEPT ![r] = "ok"]
    /\ UNCHANGED <<balance, lockHolder, refresh_tokens, req, loaded, attr, forUpdate, local>>

AccountLedgerMenu ==
    LedgerMenu
    \cup { Call("delete_account", UserX, 0, a, a, 0, {}) : a \in AccountIds }

InitAccountLedger ==
    /\ \E rq \in [1..NumRequests -> AccountLedgerMenu] : IdleInit(rq)
    /\ expenses = InitExpenses
    /\ transfers = InitTransfers

NextAccountLedger ==
    \/ \E r \in Reqs : Turn(r) /\ create_expense_check(r)
    \/ \E r \in Reqs : Turn(r) /\ create_expense_update_balance(r)
    \/ \E r \in Reqs : Turn(r) /\ update_expense_load(r)
    \/ \E r \in Reqs : Turn(r) /\ update_expense_first(r)
    \/ \E r \in Reqs : Turn(r) /\ update_expense_second(r)
    \/ \E r \in Reqs : Turn(r) /\ delete_expense_load(r)
    \/ \E r \in Reqs : Turn(r) /\ delete_expense_balance(r)
    \/ \E r \in Reqs : Turn(r) /\ create_transfer_from(r)
    \/ \E r \in Reqs : Turn(r) /\ create_transfer_to(r)
    \/ \E r \in Reqs : Turn(r) /\ update_transfer_load(r)
    \/ \E r \in Reqs : Turn(r) /\ update_transfer_old_from(r)
    \/ \E r \in Reqs : Turn(r) /\ update_transfer_old_to(r)
    \/ \E r \in Reqs : Turn(r) /\ update_transfer_new_from(r)
    \/ \E r \in Reqs : Turn(r) /\ update_transfer_new_to(r)
    \/ \E r \in Reqs : Turn(r) /\ delete_transfer_load(r)
    \/ \E r \in Reqs : Turn(r) /\ delete_transfer_from(r)
    \/ \E r \in Reqs : Turn(r) /\ delete_transfer_to(r)
    \/ \E r \in Reqs : Turn(r) /\ delete_account_load(r)
    \/ \E r \in Reqs : Turn(r) /\ delete_account_commit(r)
    \/ \E r \in Reqs : Turn(r) /\ Commit(r)
    \/ \E r \in Reqs : Turn(r) /\ Rollback(r)

SpecAccountLedger == InitAccountLedger /\ [][NextAccountLedger]_vars

\* the balance account a was created with: its balance before the requests
\* without the expenses and transfers recorded by then
CreationBalance(a) ==
    LET on == {i \in DOMAIN InitExpenses : InitExpenses[i].account_id = a}
    IN  InitBalance[a]
        + Sum([i \in on |-> InitExpenses[i].amount], on)
        - Sum([i \in DOMAIN InitTransfers |-> TransferEffect(InitTransfers[i], a)],
              DOMAIN InitTransfers)

\* C26 (as claimed): between requests, the balance of every account there
\* is equals its creation balance less the expenses recorded on it, less its
\* outgoing and plus its incoming transfers recorded.
BalanceMatchesLedger ==
    (\A r \in Reqs : pc[r] \in {"start", "done"})
    => \A a \in DOMAIN accounts :
          balance[a] = CreationBalance(a) - ExpenseTotal(a)
                       + Sum([i \in DOMAIN transfers |-> TransferEffect(transfers[i], a)],
                             DOMAIN transfers)

-----------------------------------------------------------------------------
(* endpoints/accounts.py: create_account and update_account, and the        *)
(* primary account of a user.                                               *)

\* the id of the account a request inserts (uuid4: unused so far)
NewAccountId(r) == <<12, r>>

\* select(Account).where(Account.user_id == user, Account.is_primary == True)
PrimaryAccounts(user) ==
    {a \in DOMAIN accounts : accounts[a].user_id = user /\ accounts[a].is_primary}

\* the accounts rows with is_primary = False written to the rows of unset
Unset(unset) ==
    [a \in DOMAIN accounts |->
       IF a \in unset THEN [accounts[a] EXCEPT !.is_primary = FALSE]
       ELSE accounts[a]]

\* create_account: if account_data.is_primary, the user's primary accounts
\* are selected and acc.is_primary = False is set on each, in memory
create_account_select(r) ==
    /\ pc[r] = "start"
    /\ req[r].kind = "create_account"
    /\ local' = [local EXCEPT ![r] =
                   [unset |-> IF req[r].is_primary
                              THEN PrimaryAccounts(req[r].user) ELSE {}]]
    /\ pc' = [pc EXCEPT ![r] = "ca_commit"]
    /\ UNCHANGED <<balance, lockHolder, expenses, transfers, req, accounts, refresh_tokens, loaded, attr, forUpdate, status>>

\* create_account: db.add(account); db.commit()
create_account_commit(r) ==
    /\ pc[r] = "ca_commit"
    /\ accounts' = Unset(local[r].unset)
                   @@ (NewAccountId(r) :> [user_id |-> req[r].user,
                                           is_primary |-> req[r].is_primary])
    /\ balance' = balance @@ (NewAccountId(r) :> req[r].amt)
    /\ lockHolder' = lockHolder @@ (NewAccountId(r) :> NoReq)
    /\ pc' = [pc EXCEPT ![r] = "done"]
    /\ status' = [status EXCEPT ![r] = "ok"]
    /\ UNCHANGED <<expenses, transfers, req, refresh_tokens, loaded, attr, forUpdate, local>>

\* update_account: the account is selected by id and owner
update_account_load(r) ==
    /\ pc[r] = "start"
    /\ req[r].kind = "update_account"
    /\ IF ~Matches(req[r].acc, req[r].user)
       THEN /\ NotFound(r)
            /\ UNCHANGED local
       ELSE /\ local' = [local EXCEPT ![r] =
                           [unset |-> {}, is_primary |-> accounts[req[r].acc].is_primary]]
            /\ pc' = [pc EXCEPT ![r] = IF req[r].is_primary
                                       THEN "ua_select" ELSE "ua_commit"]
            /\ UNCHANGED status
    /\ UNCHANGED <<balance, lockHolder, expenses, transfers, req, accounts, refresh_tokens, loaded, attr, forUpdate>>

\* update_account: if account_data.is_primary, the user's other primary
\* accounts are selected and acc.is_primary = False is set on each
update_account_select(r) ==
    /\ pc[r] = "ua_select"
    /\ local' = [local EXCEPT ![r].unset = PrimaryAccounts(req[r].user) \ {req[r].acc}]
    /\ pc' = [pc EXCEPT ![r] = "ua_commit"]
    /\ UNCHANGED <<balance, lockHolder, expenses, transfers, req, accounts, refresh_tokens, loaded, attr, forUpdate, status>>

\* update_account: setattr(account, field, value); db.commit().  The flush
\* writes is_primary on the account if the value set differs from the value
\* loaded.
update_account_commit(r) ==
    /\ pc[r] = "ua_commit"
    /\ accounts' = [Unset(local[r].unset) EXCEPT
                      ![req[r].acc].is_primary =
                          IF req[r].is_primary # local[r].is_primary
                          THEN req[r].is_primary ELSE @]
    /\ pc' = [pc EXCEPT ![r] = "done"]
    /\ status' = [status EXCEPT ![r] = "ok"]
    /\ UNCHANGED <<balance, lockHolder, expenses, transfers, req, refresh_tokens, loaded, attr, forUpdate, local>>

\* POST /accounts and PATCH /accounts/{id} that set is_primary
PrimaryMenu ==
    { [kind |-> "create_account", user |-> UserX, id |-> 0, acc |-> AcctX,
       acc2 |-> AcctX, amt |-> 0, fields |-> {}, is_primary |-> p] :
         p \in BOOLEAN }
    \cup { [kind |-> "update_account", user |-> UserX, id |-> 0, acc |-> a,
            acc2 |-> a, amt |-> 0, fields |-> {"is_primary"}, is_primary |-> p] :
              a \in AccountIds, p \in BOOLEAN }

InitPrimary ==
    /\ \E rq \in Draw(PrimaryMenu, NumRequests) : IdleInit(rq)
    /\ expenses = InitExpenses
    /\ transfers = InitTransfers

NextPrimary ==
    \/ \E r \in Reqs : create_account_select(r)
    \/ \E r \in Reqs : create_account_commit(r)
    \/ \E r \in Reqs : update_account_load(r)
    \/ \E r \in Reqs : update_account_select(r)
    \/ \E r \in Reqs : update_account_commit(r)
    \/ \E r \in Reqs : Rollback(r)

SpecPrimary == InitPrimary /\ [][NextPrimary]_vars

\* C29 (as claimed): in every committed state a user has at most one account
\* with is_primary = true.
AtMostOnePrimary ==
    \A u \in Users : Cardinality(PrimaryAccounts(u)) <= 1

-----------------------------------------------------------------------------
(* endpoints/auth.py: /refresh and /logout.  A refresh token is a signed    *)
(* JWT of type "refresh"; the user it names exists and is active, and no    *)
(* stored token has expired.                                                *)

\* the token a login has stored, a refresh token that is not stored, and a
\* string that is no refresh token
StoredToken == 0
UnknownToken == 99
NotAToken == -1

\* the refresh token a request issues (create_refresh_token)
NewToken(r) == 100 + r

\* raise HTTPException(status_code=401)
Unauthorized(r) ==
    /\ pc' = [pc EXCEPT ![r] = "failed"]
    /\ status' = [status EXCEPT ![r] = "401"]

\* /refresh: decode_token, then the SELECT of the token record
refresh_token_select(r) ==
    /\ pc[r] = "start"
    /\ req[r].kind = "refresh_token"
    /\ IF req[r].token = NotAToken \/ req[r].token \notin refresh_tokens
       THEN Unauthorized(r)
       ELSE /\ pc' = [pc EXCEPT ![r] = "rt_delete"]
            /\ UNCHANGED status
    /\ UNCHANGED <<balance, lockHolder, expenses, transfers, req, accounts, refresh_tokens, loaded, attr, forUpdate, local>>

\* /refresh: db.delete(token_record); db.commit().  The DELETE of a row that
\* another transaction has deleted meanwhile matches no row, which the ORM
\* reports as a warning.
refresh_token_delete(r) ==
    /\ pc[r] = "rt_delete"
    /\ refresh_tokens' = refresh_tokens \ {req[r].token}
    /\ pc' = [pc EXCEPT ![r] = "rt_insert"]
    /\ UNCHANGED <<accounts, balance, lockHolder, expenses, transfers, req, loaded, attr, forUpdate, local, status>>

\* /refresh: the new token pair is created, the new refresh token stored and
\* committed, and the pair returned
refresh_token_insert(r) ==
    /\ pc[r] = "rt_insert"
    /\ refresh_tokens' = refresh_tokens \cup {NewToken(r)}
    /\ pc' = [pc EXCEPT ![r] = "done"]
    /\ status' = [status EXCEPT ![r] = "ok"]
    /\ UNCHANGED <<accounts, balance, lockHolder, expenses, transfers, req, loaded, attr, forUpdate, local>>

\* /logout: the SELECT of the token record
logout_select(r) ==
    /\ pc[r] = "start"
    /\ req[r].kind = "logout"
    /\ IF req[r].token \in refresh_tokens
       THEN /\ pc' = [pc EXCEPT ![r] = "lo_delete"]
            /\ UNCHANGED status
       ELSE /\ pc' = [pc EXCEPT ![r] = "done"]
            /\ status' = [status EXCEPT ![r] = "ok"]
    /\ UNCHANGED <<balance, lockHolder, expenses, transfers, req, accounts, refresh_tokens, loaded, attr, forUpdate, local>>

\* /logout: db.delete(token_record); db.commit()
logout_delete(r) ==
    /\ pc[r] = "lo_delete"
    /\ refresh_tokens' = refresh_tokens \ {req[r].token}
    /\ pc' = [pc EXCEPT ![r] = "done"]
    /\ status' = [status EXCEPT ![r] = "ok"]
    /\ UNCHANGED <<accounts, balance, lockHolder, expenses, transfers, req, loaded, attr, forUpdate, local>>

AuthMenu ==
    { [kind |-> k, user |-> UserX, id |-> 0, acc |-> AcctX, acc2 |-> AcctX,
       amt |-> 0, fields |-> {}, token |-> t] :
         k \in {"refresh_token", "logout"},
         t \in {StoredToken, UnknownToken, NotAToken} }

InitAuth ==
    /\ \E rq \in Draw(AuthMenu, NumRequests) : IdleRequests(rq)
    /\ accounts = InitAccounts
    /\ balance = InitBalance
    /\ refresh_tokens = {StoredToken}
    /\ expenses = InitExpenses
    /\ transfers = InitTransfers

NextAuth ==
    \/ \E r \in Reqs : refresh_token_select(r)
    \/ \E r \in Reqs : refresh_token_delete(r)
    \/ \E r \in Reqs : refresh_token_insert(r)
    \/ \E r \in Reqs : logout_select(r)
    \/ \E r \in Reqs : logout_delete(r)
    \/ \E r \in Reqs : Rollback(r)

SpecAuth == InitAuth /\ [][NextAuth]_vars

\* C30 (as claimed): of the /refresh requests that present one token at
\* most one returns a new token pair, and a token that a /refresh has
\* exchanged or a /logout has ended is no longer stored.
ExchangedAtMostOnce ==
    /\ \A r, q \in Reqs :
          (/\ r # q
           /\ req[r].kind = "refresh_token" /\ req[q].kind = "refresh_token"
           /\ req[r].token = req[q].token)
          => ~(Committed(r) /\ Committed(q))
    /\ \A r \in Reqs :
          (req[r].kind \in {"refresh_token", "logout"} /\ Committed(r))
          => req[r].token \notin refresh_tokens

=============================================================================
